---- MODULE Spec2Model ----
(***************************************************************************)
(* AudioConverterPro: the job pipeline of the three front ends.            *)
(*   web  src/app.py                 conversion_jobs, process_conversion_job*)
(*   gui  src/audio_converter_gui.py ConversionThread.run                  *)
(*   cli  src/cli_converter.py       AudioConverter.batch_convert          *)
(* One run of the model is one run of one front end (variable surface).    *)
(* A job is one thread of that front end; every statement of the job that  *)
(* writes shared state (the job registry, the file system) is one step, so *)
(* that the other threads and the read-only routes see every intermediate  *)
(* state.  The external downloader (yt_dlp), the external encoder (ffmpeg) *)
(* and os.remove are nondeterministic in their outcome.                    *)
(***************************************************************************)
EXTENDS Integers, Sequences, FiniteSets, TLC

\* ---------------------------------------------------------------- bounds
NumJobs == 2

\* How many calls of convert_audio are made on their own.
MaxCalls == 3

Jobs == 1..NumJobs

Surfaces == {"web", "gui", "cli"}

SourceTypes == {"youtube", "file"}

\* A url or path, cut into the pieces the url test looks at.
UrlYT == <<"https://", "youtube.com", "/watch?v=1">>

UrlOther == <<"https://", "example.com", "/video">>

FileA == <<"a", "song", "wav">>

FileB == <<"b", "song", "wav">>

UploadPath == <<"uploads", "up_song", "wav">>

\* re.search(r'(youtube\.com|youtu\.be)', url) / 'youtube.com' in url or 'youtu.be' in url
is_youtube_url(url) == \E i \in 1..Len(url) : url[i] \in {"youtube.com", "youtu.be"}

\* The sources a client puts into a /convert request: the type is the client's.
WebSources ==
  {[type |-> "youtube", data |-> UrlYT], [type |-> "youtube", data |-> UrlOther],
   [type |-> "file", data |-> UploadPath]}

\* What the user drops into the GUI's file list or passes to the CLI.
LocalItems == {FileA, FileB}

CliItems == {UrlYT, FileA, FileB}

\* The titles the downloader can report, as "_"-separated tokens.
Titles == {<<"a">>, <<"a", "b">>}

\* ---------------------------------------------------------------- catalog
\* The format catalog (the same eight ids in all three front ends).
AUDIO_FORMATS ==
  [mp3  |-> [ext |-> "mp3",  codec |-> "libmp3lame"],
   ogg  |-> [ext |-> "ogg",  codec |-> "libvorbis"],
   wav  |-> [ext |-> "wav",  codec |-> "pcm_s16le"],
   flac |-> [ext |-> "flac", codec |-> "flac"],
   aac  |-> [ext |-> "aac",  codec |-> "aac"],
   m4a  |-> [ext |-> "m4a",  codec |-> "aac"],
   opus |-> [ext |-> "opus", codec |-> "libopus"],
   wma  |-> [ext |-> "wma",  codec |-> "wmav2"]]

\* The format ids a caller sends in the model: one of the catalog, one typo.
RequestFormats == {"ogg", "mp4a"}

\* The ids the GUI's format combo box offers (not editable).
GuiFormats == {"ogg"}

\* ---------------------------------------------------------------- files
\* A path: directory, the "_"-separated tokens of the stem, the extension.
NoFile == [dir |-> "", name |-> <<>>, ext |-> ""]

\* No entry handled yet by the cleanup loop in this folder; no pure call made yet.
NoSwept == "none"

NoProbe == [fn |-> "none"]

\* str(uuid.uuid4()) of the n-th job: a token no other job has.
IdStr(j) == <<"id1", "id2", "id3", "id4", "id5">>[j]

IsPrefix(p, s) == Len(p) <= Len(s) /\ SubSeq(s, 1, Len(p)) = p

\* Python's `t in s` on the token level.
IsSubstr(t, s) ==
  \E i \in 0..Len(s) : i + Len(t) <= Len(s) /\ SubSeq(s, i + 1, i + Len(t)) = t

\* os.path.join('temp', f'{job_id}_youtube.%(ext)s') after the mp3 extraction.
WebScratch(j) == [dir |-> "temp", name |-> <<IdStr(j), "youtube">>, ext |-> "mp3"]

\* The path /upload stored the file of job j under (uploads/<file_id>_<name>).
WebUpload(j) == [dir |-> "uploads", name |-> <<"up", "song">>, ext |-> "wav"]

\* An output name that leaves the job id out.
WebOutputPathNoJobId(j, input, fmt) ==
  [dir |-> "outputs", name |-> input.name, ext |-> AUDIO_FORMATS[fmt].ext]

\* f"{job_id}_{Path(input_path).stem}.{ext}" in the output folder.
WebOutputPath(j, input, fmt) ==
  [dir |-> "outputs", name |-> <<IdStr(j)>> \o input.name, ext |-> AUDIO_FORMATS[fmt].ext]

\* ---------------------------------------------------------------- texts
NoExc == "none"

ExcDownload == "YouTube download failed"

ExcUnpack == "cannot unpack non-iterable NoneType object"

ExcFormat == "Unsupported format"

ExcEncoder == "Conversion failed"

ExcRemove == "remove failed"

Absent == "absent"

VARIABLES
  surface,          \* which front end runs
  conversion_jobs,  \* web: the registry, job id -> record (a dict: partial)
  pc,               \* per job: the statement its thread is at
  source_type,      \* per job: "youtube" or "file"
  output_format,    \* per job: the requested format id
  input_path,       \* per job: the local variable input_path / temp_file
  fs,               \* the files that exist
  exc,              \* per job: the exception in flight / that left the thread
  dl_outcome,       \* per job: what the external downloader did (observer)
  enc_calls,        \* per job: number of encoder runs (observer)
  scratch,          \* per job: the file its own download wrote (observer)
  result,           \* per job: gui finished signal / cli future outcome
  out_path,         \* per job: gui/cli local variable output_path
  title,            \* per job: the title the downloader reported
  batch_pc,         \* cli: where batch_convert is
  results,          \* cli: the list batch_convert collects
  collected,        \* cli: the futures as_completed has yielded
  source_data,      \* per job: the url or path the job was created for
  queue_table,      \* gui: the rows of the queue table (their sources)
  thread_row,       \* gui: per thread, the row convert_file bound it to
  sweep_pc,         \* web: where the cleanup thread is
  listing,          \* web: the entries of os.listdir the cleanup loop has left
  calls,            \* the calls of convert_audio made on its own
  aged,             \* web: the files last written more than 24 hours ago
  swept,            \* web: what the cleanup loop did with the entry it handled last
  partial,          \* the files an encoder that failed left half written
  pool_size,        \* cli: max_workers of the running batch_convert
  action_btn,       \* gui: per row, the row its button's handler was bound to
  probe             \* the last call of a pure function made on its own

cliVars == <<batch_pc, results, collected>>

\* What the job steps of the three front ends never write.
auxVars == <<source_data, queue_table, thread_row, sweep_pc, listing, calls, aged,
             swept, partial, pool_size, action_btn, probe>>

vars == <<surface, conversion_jobs, pc, source_type, output_format, input_path,
          fs, exc, dl_outcome, enc_calls, scratch, result, out_path, title, cliVars,
          auxVars>>

\* ---------------------------------------------------------------- helpers
\* A record that is born as if its thread had already started.
NewJobRecordProcessing(j) ==
  [id |-> IdStr(j), status |-> "processing", progress |-> 20, filename |-> "name",
   message |-> "Queued for processing...", output_path |-> NoFile, error |-> Absent]

\* The record /convert creates (app.py 191-197); absent keys are marked.
NewJobRecord(j) ==
  [id |-> IdStr(j), status |-> "queued", progress |-> 0, filename |-> "name",
   message |-> "Queued for processing...", output_path |-> NoFile, error |-> Absent]

\* A write that goes to the record of the job issued last.
SetLatestJobField(j, key, value) ==
  conversion_jobs' = [conversion_jobs EXCEPT ![Cardinality(DOMAIN conversion_jobs)] =
                                               [@ EXCEPT ![key] = value]]

\* conversion_jobs[job_id][key] = value
SetJobField(j, key, value) ==
  conversion_jobs' = [conversion_jobs EXCEPT ![j] = [@ EXCEPT ![key] = value]]

Goto(j, label) == pc' = [pc EXCEPT ![j] = label]

\* A handler that catches the encoder's error only (`except FFmpegError`).
WebCatchesEncoderOnly(e) == e = ExcEncoder

\* `except Exception as e` of process_conversion_job: what it catches.
WebCatches(e) == TRUE

\* An exception e raised inside the try block of process_conversion_job.
WebRaise(j, e) ==
  /\ exc' = [exc EXCEPT ![j] = e]
  /\ Goto(j, IF WebCatches(e) THEN "L160" ELSE "escaped")

Issued == DOMAIN conversion_jobs

\* Sequences of lo..n elements of S.
ListsOver(S, lo, n) == UNION {[1..k -> S] : k \in lo..n}

\* How the GUI thread (39-43) and the CLI (106) classify an item.
Classify(item) == IF is_youtube_url(item) THEN "youtube" ELSE "file"

\* ---------------------------------------------------------------- web
\* POST /convert: one record and one started thread per source.
Convert(fmt, srcs) ==
  LET base == Cardinality(Issued)
      new  == (base + 1)..(base + Len(srcs))
  IN /\ surface = "web"
     /\ base + Len(srcs) <= NumJobs
     /\ conversion_jobs' = [j \in Issued \cup new |->
                              IF j \in new THEN NewJobRecord(j) ELSE conversion_jobs[j]]
     /\ pc' = [j \in Jobs |-> IF j \in new THEN "L132" ELSE pc[j]]
     /\ source_type' = [j \in Jobs |-> IF j \in new THEN srcs[j - base].type
                                       ELSE source_type[j]]
     /\ source_data' = [j \in Jobs |-> IF j \in new THEN srcs[j - base].data
                                       ELSE source_data[j]]
     /\ output_format' = [j \in Jobs |-> IF j \in new THEN fmt ELSE output_format[j]]
     /\ UNCHANGED <<surface, input_path, fs, exc, dl_outcome, enc_calls, scratch, result,
                    out_path, title, cliVars, queue_table, thread_row, sweep_pc, listing,
                    calls, aged, swept, partial, pool_size, action_btn, probe>>

\* Steps that only write the registry leave these alone.
RegistryStep == UNCHANGED <<surface, source_type, output_format, input_path, fs, exc,
                            dl_outcome, enc_calls, scratch, result, out_path, title, cliVars, auxVars>>

\* app.py 132
L132(j) ==
  /\ pc[j] = "L132"
  /\ SetJobField(j, "status", "processing")
  /\ Goto(j, "L133")
  /\ RegistryStep

\* app.py 133, and the branch of 136
L133(j) ==
  /\ pc[j] = "L133"
  /\ SetJobField(j, "progress", 20)
  /\ Goto(j, IF source_type[j] = "youtube" THEN "L137" ELSE "L143")
  /\ RegistryStep

\* app.py 137
L137(j) ==
  /\ pc[j] = "L137"
  /\ SetJobField(j, "message", "Downloading from YouTube...")
  /\ Goto(j, "L138")
  /\ RegistryStep

\* The files download_youtube_audio's listing of temp/ accepts for job j.
WebListing(j, files) ==
  {f \in files : f.dir = "temp" /\ IsPrefix(<<IdStr(j), "youtube">>, f.name)}

\* app.py 138: download_youtube_audio(source_data, job_id) (66-91)
L138(j) ==
  /\ pc[j] = "L138"
  /\ \E o \in {"ok", "nofile", "raise"} :
       /\ dl_outcome' = [dl_outcome EXCEPT ![j] = o]
       /\ IF o = "raise"
          THEN \* extract_info raised: wrapped and re-raised (90-91)
               /\ WebRaise(j, ExcDownload)
               /\ UNCHANGED <<fs, aged, input_path, scratch>>
          ELSE /\ fs' = IF o = "ok" THEN fs \cup {WebScratch(j)} ELSE fs
               /\ aged' = IF o = "ok" THEN aged \ {WebScratch(j)} ELSE aged
               /\ scratch' = IF o = "ok" THEN [scratch EXCEPT ![j] = WebScratch(j)]
                             ELSE scratch
               /\ IF WebListing(j, fs') = {}
                  THEN \* the function falls off its end: None is unpacked
                       /\ WebRaise(j, ExcUnpack)
                       /\ UNCHANGED input_path
                  ELSE /\ \E f \in WebListing(j, fs') :
                            input_path' = [input_path EXCEPT ![j] = f]
                       /\ Goto(j, "L139")
                       /\ UNCHANGED exc
  /\ UNCHANGED <<surface, conversion_jobs, source_type, output_format, enc_calls, result,
                 out_path, title, cliVars, source_data, queue_table, thread_row, sweep_pc,
                 listing, calls, swept, partial, pool_size, action_btn, probe>>

\* app.py 139
L139(j) ==
  /\ pc[j] = "L139"
  /\ SetJobField(j, "filename", "title")
  /\ Goto(j, "L140")
  /\ RegistryStep

\* app.py 140
L140(j) ==
  /\ pc[j] = "L140"
  /\ SetJobField(j, "progress", 60)
  /\ Goto(j, "L146")
  /\ RegistryStep

\* app.py 142-143
L143(j) ==
  /\ pc[j] = "L143"
  /\ input_path' = [input_path EXCEPT ![j] = WebUpload(j)]
  /\ SetJobField(j, "progress", 60)
  /\ Goto(j, "L146")
  /\ UNCHANGED <<surface, source_type, output_format, fs, exc, dl_outcome, enc_calls,
                 scratch, result, out_path, title, cliVars, auxVars>>

\* app.py 146
L146(j) ==
  /\ pc[j] = "L146"
  /\ SetJobField(j, "message", "Converting audio...")
  /\ Goto(j, "L147")
  /\ RegistryStep

\* ffmpeg.run(stream, overwrite_output=True, ...) (app.py 122) writes straight to
\* the output path: it returns, or raises before it has opened the output, or
\* raises after it has begun to write it.
EncoderOutcomes == {"ok", "failed early", "failed writing"}

\* The files on disk after the encoder ran on `path`.
FilesAfterEncoder(o, path, files) == IF o = "failed early" THEN files ELSE files \cup {path}

\* The half-written files after the encoder ran on `path`.
PartialAfterEncoder(o, path, halves) ==
  IF o = "ok" THEN halves \ {path}
  ELSE IF o = "failed writing" THEN halves \cup {path}
  ELSE halves

\* app.py 147: convert_audio(input_path, output_format, ..., job_id) (94-126)
L147(j) ==
  /\ pc[j] = "L147"
  /\ IF output_format[j] \notin DOMAIN AUDIO_FORMATS
     THEN /\ WebRaise(j, ExcFormat)
          /\ UNCHANGED <<fs, aged, partial, enc_calls>>
     ELSE /\ enc_calls' = [enc_calls EXCEPT ![j] = @ + 1]
          /\ \E o \in EncoderOutcomes :
               LET path == WebOutputPath(j, input_path[j], output_format[j])
               IN /\ fs' = FilesAfterEncoder(o, path, fs)
                  /\ partial' = PartialAfterEncoder(o, path, partial)
                  /\ aged' = IF o = "failed early" THEN aged ELSE aged \ {path}
                  /\ IF o = "ok"
                     THEN /\ Goto(j, "L150")
                          /\ UNCHANGED exc
                     ELSE WebRaise(j, ExcEncoder)
  /\ UNCHANGED <<surface, conversion_jobs, source_type, output_format, input_path,
                 dl_outcome, scratch, result, out_path, title, cliVars, source_data,
                 queue_table, thread_row, sweep_pc, listing, calls, swept, pool_size, action_btn,
                 probe>>

\* app.py 150
L150(j) ==
  /\ pc[j] = "L150"
  /\ SetJobField(j, "status", "completed")
  /\ Goto(j, "L151")
  /\ RegistryStep

\* app.py 151
L151(j) ==
  /\ pc[j] = "L151"
  /\ SetJobField(j, "progress", 100)
  /\ Goto(j, "L152")
  /\ RegistryStep

\* app.py 152
L152(j) ==
  /\ pc[j] = "L152"
  /\ SetJobField(j, "output_path", WebOutputPath(j, input_path[j], output_format[j]))
  /\ Goto(j, "L153")
  /\ RegistryStep

\* app.py 153, and the test of 156
L153(j) ==
  /\ pc[j] = "L153"
  /\ SetJobField(j, "message", "Conversion completed!")
  /\ Goto(j, IF source_type[j] = "youtube" /\ input_path[j] \in fs THEN "L157" ELSE "done")
  /\ RegistryStep

\* app.py 157: os.remove(input_path) removes the file or raises OSError
L157(j) ==
  /\ pc[j] = "L157"
  /\ \E ok \in BOOLEAN :
       IF ok /\ input_path[j] \in fs
       THEN /\ fs' = fs \ {input_path[j]}
            /\ Goto(j, "done")
            /\ UNCHANGED exc
       ELSE /\ WebRaise(j, ExcRemove)
            /\ UNCHANGED fs
  /\ UNCHANGED <<surface, conversion_jobs, source_type, output_format, input_path,
                 dl_outcome, enc_calls, scratch, result, out_path, title, cliVars, auxVars>>

\* app.py 160
L160(j) ==
  /\ pc[j] = "L160"
  /\ SetJobField(j, "status", "failed")
  /\ Goto(j, "L161")
  /\ RegistryStep

\* A handler that also puts the progress of the failed job back to 0.
L161ResetsProgress(j) ==
  /\ pc[j] = "L161"
  /\ conversion_jobs' = [conversion_jobs EXCEPT ![j] = [@ EXCEPT !["error"] = exc[j],
                                                                !["progress"] = 0]]
  /\ Goto(j, "L162")
  /\ RegistryStep

\* app.py 161
L161(j) ==
  /\ pc[j] = "L161"
  /\ SetJobField(j, "error", exc[j])
  /\ Goto(j, "L162")
  /\ RegistryStep

\* app.py 162
L162(j) ==
  /\ pc[j] = "L162"
  /\ SetJobField(j, "message", "Error")
  /\ Goto(j, "done")
  /\ RegistryStep

\* GET /status/<job_id>: what the route answers in the current state.
get_status(j) ==
  IF j \notin Issued THEN [error |-> "Job not found"] ELSE conversion_jobs[j]

\* A route that sends the file of any record that has an output_path.
downloadAnyStatus(j) ==
  IF j \notin Issued
  THEN [code |-> 404, error |-> "Job not found", sent |-> NoFile, raised |-> FALSE]
  ELSE IF conversion_jobs[j].output_path = NoFile
  THEN [code |-> 400, error |-> "File not ready", sent |-> NoFile, raised |-> FALSE]
  ELSE IF conversion_jobs[j].output_path \in fs
  THEN [code |-> 200, error |-> "none", sent |-> conversion_jobs[j].output_path,
        raised |-> FALSE]
  ELSE [code |-> 500, error |-> "FileNotFoundError", sent |-> NoFile, raised |-> TRUE]

\* GET /download/<job_id> (247-263): what the route answers in the current
\* state. send_file opens output_path without a test that the file is there:
\* when it is not, FileNotFoundError leaves the handler (raised) and the
\* framework turns it into its generic 500 page.
download(j) ==
  IF j \notin Issued
  THEN [code |-> 404, error |-> "Job not found", sent |-> NoFile, raised |-> FALSE]
  ELSE IF conversion_jobs[j].status # "completed" \/ conversion_jobs[j].output_path = NoFile
  THEN [code |-> 400, error |-> "File not ready", sent |-> NoFile, raised |-> FALSE]
  ELSE IF conversion_jobs[j].output_path \in fs
  THEN [code |-> 200, error |-> "none", sent |-> conversion_jobs[j].output_path,
        raised |-> FALSE]
  ELSE [code |-> 500, error |-> "FileNotFoundError", sent |-> NoFile, raised |-> TRUE]

\* for folder in ['temp', 'uploads', 'outputs'] (289)
SweepFolders == <<"temp", "uploads", "outputs">>

\* os.listdir(folder) (290)
ListDir(folder, files) == {f \in files : f.dir = folder}

\* What the cleanup thread leaves alone.
SweepFrame ==
  UNCHANGED <<surface, conversion_jobs, pc, source_type, output_format, input_path, exc,
              dl_outcome, enc_calls, scratch, result, out_path, title, cliVars,
              source_data, queue_table, thread_row, calls, partial, pool_size, action_btn, probe>>

\* cleanup_old_files 287-290: the sleep ends and the first folder is listed.
SweepWake ==
  /\ surface = "web"
  /\ sweep_pc = "sleep"
  /\ sweep_pc' = SweepFolders[1]
  /\ listing' = ListDir(SweepFolders[1], fs)
  /\ swept' = NoSwept
  /\ UNCHANGED <<fs, aged>>
  /\ SweepFrame

\* An age test that every file passes.
ExpiredAlways(f, old) == TRUE

\* os.path.getmtime(filepath) < time.time() - 86400 (292)
Expired(f, old) == f \in old

\* A day goes by: every file on disk is now older than 24 hours.
DayPasses ==
  /\ surface = "web"
  /\ aged # fs
  /\ aged' = fs
  /\ UNCHANGED <<fs, sweep_pc, listing, swept>>
  /\ SweepFrame

\* cleanup_old_files 291-296 for one listed entry: getmtime (292) is outside the
\* try and raises when the entry is gone, which ends the thread; an entry older
\* than 24 hours is removed, and a removal that fails (293-296) is passed over.
SweepFile(f, removed) ==
  /\ surface = "web"
  /\ sweep_pc \in {SweepFolders[i] : i \in 1..Len(SweepFolders)}
  /\ f \in listing
  /\ IF f \notin fs
     THEN /\ sweep_pc' = "dead"
          /\ listing' = {}
          /\ swept' = "gone"
          /\ UNCHANGED <<fs, aged>>
     ELSE /\ listing' = listing \ {f}
          /\ fs' = IF Expired(f, aged) /\ removed THEN fs \ {f} ELSE fs
          /\ aged' = IF Expired(f, aged) /\ removed THEN aged \ {f} ELSE aged
          /\ swept' = IF ~Expired(f, aged) THEN "kept"
                      ELSE IF removed THEN "removed" ELSE "remove failed"
          /\ UNCHANGED sweep_pc
  /\ SweepFrame

\* The listing of a folder is used up: the next folder is listed, or the loop
\* goes back to its sleep (288).
SweepNext ==
  /\ surface = "web"
  /\ \E i \in 1..Len(SweepFolders) :
       /\ sweep_pc = SweepFolders[i]
       /\ listing = {}
       /\ IF i < Len(SweepFolders)
          THEN /\ sweep_pc' = SweepFolders[i + 1]
               /\ listing' = ListDir(SweepFolders[i + 1], fs)
          ELSE /\ sweep_pc' = "sleep"
               /\ listing' = {}
  /\ swept' = NoSwept
  /\ UNCHANGED <<fs, aged>>
  /\ SweepFrame

\* app.py 216-235: POST /upload saves the file under uploads/ and answers with
\* its path; the saved file is new. The client uploads before it posts the
\* path to /convert.
upload ==
  /\ surface = "web"
  /\ Issued = {}
  /\ WebUpload(1) \notin fs
  /\ fs' = fs \cup {WebUpload(1)}
  /\ aged' = aged \ {WebUpload(1)}
  /\ UNCHANGED <<sweep_pc, listing, swept>>
  /\ SweepFrame

\* The input files convert_audio is called with on its own: two stems, and one
\* stem under two folders and extensions.
CallInputs ==
  {[dir |-> "uploads", name |-> <<"up", "song">>, ext |-> "wav"],
   [dir |-> "uploads", name |-> <<"up", "tune">>, ext |-> "wav"],
   [dir |-> "temp", name |-> <<"up", "song">>, ext |-> "mp3"]}

CallFormats == {"ogg", "wav", "mp4a"}

\* Two job ids are enough to call it under the same id and under another one.
CallJobIds == {1, 2}

\* app.py 94-126: one call convert_audio(input, fmt, ..., job_id) and its outcome.
convert_audio(j, input, fmt) ==
  /\ Len(calls) < MaxCalls
  /\ IF fmt \notin DOMAIN AUDIO_FORMATS
     THEN /\ calls' = Append(calls, [job |-> j, input |-> input, fmt |-> fmt,
                                     path |-> NoFile, existed |-> FALSE,
                                     whole_before |-> FALSE, whole_after |-> FALSE,
                                     error |-> ExcFormat])
          /\ UNCHANGED <<fs, partial>>
     ELSE LET path == WebOutputPath(j, input, fmt)
          IN \E o \in EncoderOutcomes :
               /\ fs' = FilesAfterEncoder(o, path, fs)
               /\ partial' = PartialAfterEncoder(o, path, partial)
               /\ calls' = Append(calls,
                    [job |-> j, input |-> input, fmt |-> fmt, path |-> path,
                     existed |-> path \in fs,
                     whole_before |-> path \in fs /\ path \notin partial,
                     whole_after |-> path \in fs' /\ path \notin partial',
                     error |-> IF o = "ok" THEN NoExc ELSE ExcEncoder])
  /\ UNCHANGED <<surface, conversion_jobs, pc, source_type, output_format, input_path,
                 exc, dl_outcome, enc_calls, scratch, result, out_path, title, cliVars,
                 source_data, queue_table, thread_row, sweep_pc, listing, aged, swept,
                 pool_size, action_btn, probe>>

\* ---------------------------------------------------------------- gui
\* os.path.join(self.output_dir, 'youtube_temp_%(title)s.%(ext)s') after extraction.
GuiScratch(t) == [dir |-> "out", name |-> <<"youtube", "temp">> \o t, ext |-> "mp3"]

\* The path of a local item of the queue or of the command line.
LocalFile(item) == [dir |-> item[1], name |-> <<item[2]>>, ext |-> item[3]]

\* The files _download_youtube's listing of the output directory accepts (71-73).
GuiListing(files) ==
  {f \in files : f.dir = "out" /\ IsPrefix(<<"youtube", "temp">>, f.name) /\ f.ext = "mp3"}

IsWordChar(c) == c \in {"a", "b", "song", "youtube", "temp", " ", "-"}

\* "".join(c for c in title if c.isalnum() or c in (' ', '-', '_')) (90)
Sanitize(t) == SelectSeq(t, IsWordChar)

CounterStr(n) == <<"1", "2", "3", "4", "5", "6", "7", "8">>[n]

\* f"{base_name}.{fmt}", or f"{base_name}_{counter}.{fmt}" for counter >= 1 (94-101)
GuiOutputPath(base, n, fmt) ==
  [dir |-> "out", name |-> IF n = 0 THEN base ELSE base \o <<CounterStr(n)>>, ext |-> fmt]

\* The `while os.path.exists(output_path)` loop (98-102): the first free counter.
FirstFree(base, fmt, files) ==
  CHOOSE n \in 0..Cardinality(files) :
    /\ GuiOutputPath(base, n, fmt) \notin files
    /\ \A m \in 0..(n - 1) : GuiOutputPath(base, m, fmt) \in files

Started == {j \in Jobs : pc[j] # "idle"}

\* The button of a row whose conversion has finished: "Open" (688-690).
OpenBtn == 0

\* add_to_queue 570-588: the rows appended up to row n get a "Remove" button
\* whose handler holds the row's index of that moment.
NewButtons(buttons, n) ==
  [r \in 1..n |-> IF r <= Len(buttons) THEN buttons[r] ELSE r]

\* QTableWidget.removeRow(row): the rows below move up; a row that is not
\* there removes nothing.
removeRow(rows, row) ==
  IF row \in 1..Len(rows)
  THEN SubSeq(rows, 1, row - 1) \o SubSeq(rows, row + 1, Len(rows))
  ELSE rows

\* What the handlers of the queue's buttons and menu leave alone.
QueueFrame ==
  UNCHANGED <<surface, conversion_jobs, pc, source_type, output_format, input_path, fs,
              exc, dl_outcome, enc_calls, scratch, result, out_path, title, cliVars,
              source_data, thread_row, sweep_pc, listing, calls, aged, swept, partial,
              pool_size, probe>>

\* remove_from_queue (594-596)
remove_from_queue(row) ==
  /\ queue_table' = removeRow(queue_table, row)
  /\ action_btn' = removeRow(action_btn, row)
  /\ QueueFrame

\* The user clicks the "Remove" button shown in row r: its handler calls
\* remove_from_queue with the index it was bound to (588).
RemoveClicked(r) ==
  /\ surface = "gui"
  /\ r \in 1..Len(queue_table)
  /\ action_btn[r] # OpenBtn
  /\ remove_from_queue(action_btn[r])

\* clear_queue (708-710): Tools > Clear Queue
clear_queue ==
  /\ surface = "gui"
  /\ queue_table # <<>>
  /\ queue_table' = <<>>
  /\ action_btn' = <<>>
  /\ QueueFrame

\* add_youtube_to_queue (561-566) -> add_to_queue (568-592): whatever text the
\* url field holds becomes a new row.
add_youtube_to_queue(url) ==
  /\ surface = "gui"
  /\ Len(queue_table) < NumJobs
  /\ queue_table' = Append(queue_table, url)
  /\ action_btn' = NewButtons(action_btn, Len(queue_table'))
  /\ UNCHANGED <<surface, conversion_jobs, pc, source_type, output_format, input_path, fs,
                 exc, dl_outcome, enc_calls, scratch, result, out_path, title, cliVars,
                 source_data, thread_row, sweep_pc, listing, calls, aged, swept, partial,
                 pool_size, probe>>

RECURSIVE AddMissing(_, _)
\* start_conversion 632-635: add_to_queue for every source no row holds yet.
AddMissing(rows, srcs) ==
  IF srcs = <<>> THEN rows
  ELSE AddMissing(IF \E r \in 1..Len(rows) : rows[r] = Head(srcs)
                  THEN rows ELSE Append(rows, Head(srcs)), Tail(srcs))

\* start_conversion (598-641) with convert_file (659-673): the files of the
\* drop area (srcs) join the queue, then one ConversionThread is started for
\* every row of the queue table.
start_conversion(fmt, srcs) ==
  LET base == Cardinality(Started)
      rows == AddMissing(queue_table, srcs)
      new  == (base + 1)..(base + Len(rows))
  IN /\ surface = "gui"
     /\ rows # <<>>
     /\ base + Len(rows) <= NumJobs
     /\ queue_table' = rows
     /\ action_btn' = NewButtons(action_btn, Len(rows))
     /\ thread_row' = [j \in Jobs |-> IF j \in new THEN j - base ELSE thread_row[j]]
     /\ source_data' = [j \in Jobs |-> IF j \in new THEN rows[j - base] ELSE source_data[j]]
     /\ pc' = [j \in Jobs |-> IF j \in new
                              THEN (IF Classify(rows[j - base]) = "youtube"
                                    THEN "G159" ELSE "G86")
                              ELSE pc[j]]
     /\ source_type' = [j \in Jobs |-> IF j \in new THEN Classify(rows[j - base])
                                       ELSE source_type[j]]
     /\ output_format' = [j \in Jobs |-> IF j \in new THEN fmt ELSE output_format[j]]
     /\ input_path' = [j \in Jobs |-> IF j \in new /\ Classify(rows[j - base]) = "file"
                                      THEN LocalFile(rows[j - base]) ELSE input_path[j]]
     /\ UNCHANGED <<surface, conversion_jobs, fs, exc, dl_outcome, enc_calls, scratch,
                    result, out_path, title, cliVars, sweep_pc, listing, calls, aged,
                    swept, partial, pool_size, probe>>

\* `except Exception as e` of ConversionThread.run (168).
GuiRaise(j, e) ==
  /\ exc' = [exc EXCEPT ![j] = e]
  /\ Goto(j, "G169")

\* gui 159: temp_file, title = self._download_youtube(self.source) (45-76)
G159(j) ==
  /\ pc[j] = "G159"
  /\ \E o \in {"ok", "nofile", "raise"} : \E t \in Titles :
       /\ dl_outcome' = [dl_outcome EXCEPT ![j] = o]
       /\ IF o = "raise"
          THEN /\ GuiRaise(j, ExcDownload)
               /\ UNCHANGED <<fs, input_path, scratch, title>>
          ELSE /\ fs' = IF o = "ok" THEN fs \cup {GuiScratch(t)} ELSE fs
               /\ scratch' = IF o = "ok" THEN [scratch EXCEPT ![j] = GuiScratch(t)]
                             ELSE scratch
               /\ IF GuiListing(fs') = {}
                  THEN /\ GuiRaise(j, ExcUnpack)
                       /\ UNCHANGED <<input_path, title>>
                  ELSE /\ \E f \in GuiListing(fs') :
                            input_path' = [input_path EXCEPT ![j] = f]
                       /\ title' = [title EXCEPT ![j] = t]
                       /\ Goto(j, "G86")
                       /\ UNCHANGED exc
  /\ UNCHANGED <<surface, conversion_jobs, source_type, output_format, enc_calls, result,
                 out_path, cliVars, auxVars>>

\* gui 86-102: _convert_audio chooses the output path
G86(j) ==
  /\ pc[j] = "G86"
  /\ LET base == IF title[j] # <<>> THEN Sanitize(title[j]) ELSE input_path[j].name
     IN out_path' = [out_path EXCEPT ![j] =
          GuiOutputPath(base, FirstFree(base, output_format[j], fs), output_format[j])]
  /\ Goto(j, "G113")
  /\ UNCHANGED <<surface, conversion_jobs, source_type, output_format, input_path, fs, exc,
                 dl_outcome, enc_calls, scratch, result, title, cliVars, auxVars>>

\* gui 104-120: ffmpeg.run(..., overwrite_output=True)
G113(j) ==
  /\ pc[j] = "G113"
  /\ enc_calls' = [enc_calls EXCEPT ![j] = @ + 1]
  /\ \E ok \in BOOLEAN :
       IF ok
       THEN /\ fs' = fs \cup {out_path[j]}
            /\ Goto(j, "G165")
            /\ UNCHANGED exc
       ELSE /\ GuiRaise(j, ExcEncoder)
            /\ UNCHANGED fs
  /\ UNCHANGED <<surface, conversion_jobs, source_type, output_format, input_path,
                 dl_outcome, scratch, result, out_path, title, cliVars, auxVars>>

\* gui 165-166: progress 100 and finished(True, output_path); its slot
\* conversion_finished (684-693) puts an "Open" button into the row the thread
\* was bound to, if the table still has a row of that index.
G165(j) ==
  /\ pc[j] = "G165"
  /\ result' = [result EXCEPT ![j] = "ok"]
  /\ action_btn' = IF thread_row[j] \in 1..Len(action_btn)
                   THEN [action_btn EXCEPT ![thread_row[j]] = OpenBtn]
                   ELSE action_btn
  /\ Goto(j, "G173")
  /\ UNCHANGED <<surface, conversion_jobs, source_type, output_format, input_path, fs, exc,
                 dl_outcome, enc_calls, scratch, out_path, title, cliVars, source_data,
                 queue_table, thread_row, sweep_pc, listing, calls, aged, swept, partial,
                 pool_size, probe>>

\* gui 168-169: finished(False, str(e))
G169(j) ==
  /\ pc[j] = "G169"
  /\ result' = [result EXCEPT ![j] = "fail"]
  /\ Goto(j, "G173")
  /\ UNCHANGED <<surface, conversion_jobs, source_type, output_format, input_path, fs, exc,
                 dl_outcome, enc_calls, scratch, out_path, title, cliVars, auxVars>>

\* gui 171-177: finally; os.remove in a try/except that passes
G173(j) ==
  /\ pc[j] = "G173"
  /\ IF input_path[j] # NoFile /\ source_type[j] = "youtube" /\ input_path[j] \in fs
     THEN \E ok \in BOOLEAN : fs' = IF ok THEN fs \ {input_path[j]} ELSE fs
     ELSE fs' = fs
  /\ Goto(j, "done")
  /\ UNCHANGED <<surface, conversion_jobs, source_type, output_format, input_path, exc,
                 dl_outcome, enc_calls, scratch, result, out_path, title, cliVars, auxVars>>

\* ---------------------------------------------------------------- cli
\* max_workers of batch_convert (the default of -j).
max_workers == 4

\* os.path.join(output_dir, '%(title)s.%(ext)s') after extraction.
CliScratch(t) == [dir |-> "downloads", name |-> t, ext |-> "mp3"]

\* The files download_youtube's listing accepts (57-59).
CliListing(t, files) ==
  {f \in files : f.dir = "downloads" /\ IsSubstr(t, f.name) /\ f.ext = "mp3"}

\* f"{Path(input_path).stem}.{ext}" in the output directory (72-73).
CliOutputPath(input, fmt) ==
  [dir |-> "converted", name |-> input.name, ext |-> AUDIO_FORMATS[fmt].ext]

Running == {j \in Jobs : pc[j] \notin {"idle", "submitted", "done"}}

\* The values of -j / --jobs (178): one worker, or the default.
JobsFlags == {1, max_workers}

\* batch_convert 119-125: a pool of `workers` threads is made and every item
\* is submitted to it.
batch_convert(fmt, srcs, workers) ==
  /\ surface = "cli"
  /\ batch_pc = "idle"
  /\ Len(srcs) <= NumJobs
  /\ pool_size' = workers
  /\ pc' = [j \in Jobs |-> IF j <= Len(srcs) THEN "submitted" ELSE pc[j]]
  /\ source_type' = [j \in Jobs |-> IF j <= Len(srcs) THEN Classify(srcs[j])
                                    ELSE source_type[j]]
  /\ source_data' = [j \in Jobs |-> IF j <= Len(srcs) THEN srcs[j] ELSE source_data[j]]
  /\ output_format' = [j \in Jobs |-> IF j <= Len(srcs) THEN fmt ELSE output_format[j]]
  /\ batch_pc' = "collecting"
  /\ UNCHANGED <<surface, conversion_jobs, input_path, fs, exc, dl_outcome, enc_calls,
                 scratch, result, out_path, title, results, collected, queue_table,
                 thread_row, sweep_pc, listing, calls, aged, swept, partial, probe,
                 action_btn>>

\* A worker that takes a submitted item whether or not the pool has a free thread.
C106Unbounded(j) ==
  /\ pc[j] = "submitted"
  /\ Goto(j, IF source_type[j] = "youtube" THEN "C108" ELSE "C116")
  /\ input_path' = [input_path EXCEPT ![j] =
                      IF source_type[j] = "file" THEN LocalFile(source_data[j]) ELSE @]
  /\ UNCHANGED <<surface, conversion_jobs, source_type, output_format, fs, exc,
                 dl_outcome, enc_calls, scratch, result, out_path, title, cliVars, auxVars>>

\* A pool worker takes a submitted item: process_file 106.
C106(j) ==
  /\ pc[j] = "submitted"
  /\ Cardinality(Running) < pool_size
  /\ Goto(j, IF source_type[j] = "youtube" THEN "C108" ELSE "C116")
  /\ input_path' = [input_path EXCEPT ![j] =
                      IF source_type[j] = "file" THEN LocalFile(source_data[j]) ELSE @]
  /\ UNCHANGED <<surface, conversion_jobs, source_type, output_format, fs, exc,
                 dl_outcome, enc_calls, scratch, result, out_path, title, cliVars, auxVars>>

\* The future of item j ends with a value.
CliReturn(j, value) ==
  /\ result' = [result EXCEPT ![j] = value]
  /\ Goto(j, "done")

\* An exception leaves process_file: the future of item j ends with it.
CliRaise(j, e) ==
  /\ exc' = [exc EXCEPT ![j] = e]
  /\ CliReturn(j, "exception")

\* cli 108-109: downloaded_file = self.download_youtube(input_item) (34-62)
C108(j) ==
  /\ pc[j] = "C108"
  /\ \E o \in {"ok", "nofile", "raise"} : \E t \in Titles :
       /\ dl_outcome' = [dl_outcome EXCEPT ![j] = o]
       /\ fs' = IF o = "ok" THEN fs \cup {CliScratch(t)} ELSE fs
       /\ scratch' = IF o = "ok" THEN [scratch EXCEPT ![j] = CliScratch(t)] ELSE scratch
       /\ IF o = "raise" \/ CliListing(t, fs') = {}
          THEN \* None: `if downloaded_file` fails and process_file returns None
               /\ CliReturn(j, "None")
               /\ UNCHANGED <<input_path, title>>
          ELSE /\ \E f \in CliListing(t, fs') :
                    input_path' = [input_path EXCEPT ![j] = f]
               /\ title' = [title EXCEPT ![j] = t]
               /\ Goto(j, "C110")
               /\ UNCHANGED result
  /\ UNCHANGED <<surface, conversion_jobs, source_type, output_format, exc, enc_calls,
                 out_path, cliVars, auxVars>>

\* AudioConverter.convert_audio (64-102), called at 110 (then -> 112) or 116
CliConvert(j, after) ==
  IF output_format[j] \notin DOMAIN AUDIO_FORMATS
  THEN /\ CliRaise(j, ExcFormat)
       /\ UNCHANGED <<fs, enc_calls, out_path>>
  ELSE /\ enc_calls' = [enc_calls EXCEPT ![j] = @ + 1]
       /\ \E ok \in BOOLEAN :
            /\ fs' = IF ok THEN fs \cup {CliOutputPath(input_path[j], output_format[j])}
                     ELSE fs
            /\ out_path' = [out_path EXCEPT ![j] =
                 IF ok THEN CliOutputPath(input_path[j], output_format[j]) ELSE NoFile]
            /\ IF after = "return"
               THEN /\ CliReturn(j, IF ok THEN "path" ELSE "None")
                    /\ UNCHANGED exc
               ELSE /\ Goto(j, after)
                    /\ UNCHANGED <<exc, result>>

\* cli 110
C110(j) ==
  /\ pc[j] = "C110"
  /\ CliConvert(j, "C112")
  /\ UNCHANGED <<surface, conversion_jobs, source_type, output_format, input_path,
                 dl_outcome, scratch, title, cliVars, auxVars>>

\* cli 112-113: os.remove(downloaded_file); return result
C112(j) ==
  /\ pc[j] = "C112"
  /\ \E ok \in BOOLEAN :
       IF ok /\ input_path[j] \in fs
       THEN /\ fs' = fs \ {input_path[j]}
            /\ CliReturn(j, IF out_path[j] # NoFile THEN "path" ELSE "None")
            /\ UNCHANGED exc
       ELSE /\ CliRaise(j, ExcRemove)
            /\ UNCHANGED fs
  /\ UNCHANGED <<surface, conversion_jobs, source_type, output_format, input_path,
                 dl_outcome, enc_calls, scratch, out_path, title, cliVars, auxVars>>

\* cli 116
C116(j) ==
  /\ pc[j] = "C116"
  /\ CliConvert(j, "return")
  /\ UNCHANGED <<surface, conversion_jobs, source_type, output_format, input_path,
                 dl_outcome, scratch, title, cliVars, auxVars>>

\* batch_convert 128-131: as_completed yields a finished future; future.result()
\* returns its value or re-raises its exception.
C129(j) ==
  /\ batch_pc = "collecting"
  /\ pc[j] = "done"
  /\ j \notin collected
  /\ collected' = collected \cup {j}
  /\ IF result[j] = "exception"
     THEN /\ batch_pc' = "exiting"
          /\ UNCHANGED results
     ELSE /\ results' = IF result[j] = "path" THEN Append(results, out_path[j]) ELSE results
          /\ UNCHANGED batch_pc
  /\ UNCHANGED <<surface, conversion_jobs, pc, source_type, output_format, input_path, fs,
                 exc, dl_outcome, enc_calls, scratch, result, out_path, title, auxVars>>

\* batch_convert 133: every future was yielded; return results
C133 ==
  /\ batch_pc = "collecting"
  /\ collected = {j \in Jobs : pc[j] # "idle"}
  /\ batch_pc' = "returned"
  /\ UNCHANGED <<surface, conversion_jobs, pc, source_type, output_format, input_path, fs,
                 exc, dl_outcome, enc_calls, scratch, result, out_path, title, results,
                 collected, auxVars>>

\* The exception of 129 leaves the `with` block: the executor waits for its
\* workers, then the exception leaves batch_convert.
BatchRaise ==
  /\ batch_pc = "exiting"
  /\ \A j \in Jobs : pc[j] \in {"idle", "done"}
  /\ batch_pc' = "raised"
  /\ UNCHANGED <<surface, conversion_jobs, pc, source_type, output_format, input_path, fs,
                 exc, dl_outcome, enc_calls, scratch, result, out_path, title, results,
                 collected, auxVars>>

\* ---------------------------------------------------------------- pure functions
\* A call of a pure function made on its own changes nothing but `probe`.
ProbeFrame ==
  UNCHANGED <<surface, conversion_jobs, pc, source_type, output_format, input_path, fs,
              exc, dl_outcome, enc_calls, scratch, result, out_path, title, cliVars,
              source_data, queue_table, thread_row, sweep_pc, listing, calls, aged,
              swept, partial, pool_size, action_btn>>

\* Python's None, as a request field that is not set.
None == "None"

\* The values `if sample_rate:` and `if bitrate:` take for unset (None, 0, '').
Falsy == {None, "0", ""}

\* sampleRate of a request / -s / the sample rate combo (357).
SampleRates == {None, "0", "32000", "44100"}

\* bitrate of a request / -b / the bitrate combo (364).
Bitrates == {None, "", "128k", "320k"}

\* A dict with the key acodec, and ar and audio_bitrate when they are given.
ParamsDict(codec, sample_rate, bitrate) ==
  [k \in {"acodec"} \cup (IF sample_rate \in Falsy THEN {} ELSE {"ar"})
                    \cup (IF bitrate \in Falsy THEN {} ELSE {"audio_bitrate"}) |->
     IF k = "acodec" THEN codec ELSE IF k = "ar" THEN sample_rate ELSE bitrate]

\* app.py 107-114: audio_params of the web convert_audio.
web_audio_params(fmt, sample_rate, bitrate) ==
  ParamsDict(AUDIO_FORMATS[fmt].codec, sample_rate, bitrate)

\* cli_converter.py 17-28: self.formats.
formats ==
  [mp3 |-> [ext |-> "mp3", codec |-> "libmp3lame"],
   ogg |-> [ext |-> "ogg", codec |-> "libvorbis"],
   wav |-> [ext |-> "wav", codec |-> "pcm_s16le"],
   flac |-> [ext |-> "flac", codec |-> "flac"],
   aac |-> [ext |-> "aac", codec |-> "aac"],
   m4a |-> [ext |-> "m4a", codec |-> "aac"],
   opus |-> [ext |-> "opus", codec |-> "libopus"],
   wma |-> [ext |-> "wma", codec |-> "wmav2"]]

\* cli_converter.py 81-91: audio_params of AudioConverter.convert_audio.
cli_audio_params(fmt, sample_rate, bitrate) ==
  ParamsDict(formats[fmt].codec, sample_rate, bitrate)

\* A codec table whose m4a entry differs from the catalog's.
codec_map_alac ==
  [mp3 |-> "libmp3lame", ogg |-> "libvorbis", wav |-> "pcm_s16le", flac |-> "flac",
   aac |-> "aac", m4a |-> "alac", opus |-> "libopus", wma |-> "wmav2"]

\* audio_converter_gui.py 127-136: codec_map of _get_audio_params.
codec_map ==
  [mp3 |-> "libmp3lame", ogg |-> "libvorbis", wav |-> "pcm_s16le", flac |-> "flac",
   aac |-> "aac", m4a |-> "aac", opus |-> "libopus", wma |-> "wmav2"]

\* audio_converter_gui.py 122-150: ConversionThread._get_audio_params, with the
\* settings get_conversion_settings (643-657) builds; it never sets channels.
get_audio_params(fmt, sample_rate, bitrate) ==
  ParamsDict(IF fmt \in DOMAIN codec_map THEN codec_map[fmt] ELSE "copy",
             sample_rate, bitrate)

\* The parameter builder of the front end that runs.
audio_params(fmt, sample_rate, bitrate) ==
  IF surface = "web" THEN web_audio_params(fmt, sample_rate, bitrate)
  ELSE IF surface = "cli" THEN cli_audio_params(fmt, sample_rate, bitrate)
  ELSE get_audio_params(fmt, sample_rate, bitrate)

\* One request's encoder parameters are built.
BuildParams(fmt, sample_rate, bitrate) ==
  /\ probe' = [fn |-> "audio_params", fmt |-> fmt, sample_rate |-> sample_rate,
               bitrate |-> bitrate, params |-> audio_params(fmt, sample_rate, bitrate)]
  /\ ProbeFrame

\* File names as strings of characters, for the functions that cut them.
MaxStem == 4

\* The characters a stem is made of: a letter, the separator and a dot.
StemChars == {"s", "_", "."}

\* Path(input_path).stem: every string of at most MaxStem characters, the empty one too.
Stems == UNION {[1..n -> StemChars] : n \in 0..MaxStem}

\* str(uuid.uuid4()) (app.py 186): hexadecimal digits and hyphens, no underscore.
Uuids == {<<"1", "f", "-", "4", "a">>, <<"c", "0", "-", "9", "e">>}

\* The extensions of two catalog formats.
Exts == {<<"o", "g", "g">>, <<"m", "p", "3">>}

\* The position of the first `c` in s, 0 when there is none.
Find(s, c) ==
  IF \E i \in 1..Len(s) : s[i] = c
  THEN CHOOSE i \in 1..Len(s) : s[i] = c /\ \A k \in 1..(i - 1) : s[k] # c
  ELSE 0

RECURSIVE split(_, _)
\* str.split(sep): the pieces between the separators, empty pieces included.
split(s, sep) ==
  IF Find(s, sep) = 0 THEN <<s>>
  ELSE <<SubSeq(s, 1, Find(s, sep) - 1)>> \o split(SubSeq(s, Find(s, sep) + 1, Len(s)), sep)

RECURSIVE join(_, _)
\* sep.join(pieces)
join(pieces, sep) ==
  IF pieces = <<>> THEN <<>>
  ELSE IF Len(pieces) = 1 THEN pieces[1]
  ELSE pieces[1] \o <<sep>> \o join(Tail(pieces), sep)

RECURSIVE basename(_)
\* os.path.basename: what follows the last slash.
basename(path) ==
  IF Find(path, "/") = 0 THEN path
  ELSE basename(SubSeq(path, Find(path, "/") + 1, Len(path)))

\* app.py 100-101: os.path.join('outputs', f"{job_id}_{stem}.{ext}")
output_path_string(job_id, stem, ext) ==
  <<"o", "u", "t", "/">> \o job_id \o <<"_">> \o stem \o <<".">> \o ext

\* A cleaning that keeps only the last piece of the name.
clean_filename_last_piece(filename) ==
  split(filename, "_")[Len(split(filename, "_"))]

\* app.py 261: clean_filename = '_'.join(filename.split('_')[1:])
clean_filename(filename) == join(Tail(split(filename, "_")), "_")

\* app.py 257-263: the name /download sends for the output of one conversion.
DownloadName(job_id, stem, ext) ==
  /\ surface = "web"
  /\ probe' = [fn |-> "clean_filename", job_id |-> job_id, stem |-> stem, ext |-> ext,
               download_name |->
                 clean_filename(basename(output_path_string(job_id, stem, ext)))]
  /\ ProbeFrame

\* The largest byte count of a downloader report.
MaxBytes == 13

\* The dicts yt-dlp hands to a progress hook: a status, the bytes so far and,
\* when the size is known, total_bytes; never more bytes than the total.
Reports ==
  {[status |-> st, downloaded_bytes |-> n] :
     st \in {"downloading", "finished"}, n \in 0..MaxBytes}
  \cup {[status |-> "downloading", downloaded_bytes |-> n, total_bytes |-> t] :
          n \in 0..MaxBytes, t \in 1..MaxBytes}

\* d.get(key, default)
Get(d, key, default) == IF key \in DOMAIN d THEN d[key] ELSE default

\* audio_converter_gui.py 78-82: the values _youtube_progress_hook emits for
\* one report d: int(20 + downloaded_bytes / total_bytes * 50) while downloading.
youtube_progress_hook(d) ==
  IF d.status = "downloading"
  THEN <<20 + (Get(d, "downloaded_bytes", 0) * 50) \div Get(d, "total_bytes", 1)>>
  ELSE <<>>

\* The downloader calls the hook of a conversion thread with one report.
HookCalled(d) ==
  /\ surface = "gui"
  /\ IF "total_bytes" \in DOMAIN d THEN d.downloaded_bytes <= d.total_bytes ELSE TRUE
  /\ probe' = [fn |-> "youtube_progress_hook", d |-> d, emitted |-> youtube_progress_hook(d)]
  /\ ProbeFrame

\* ---------------------------------------------------------------- system
Init ==
  /\ surface \in Surfaces
  /\ conversion_jobs = <<>>
  /\ pc = [j \in Jobs |-> "idle"]
  /\ source_type = [j \in Jobs |-> "none"]
  /\ output_format = [j \in Jobs |-> "none"]
  /\ input_path = [j \in Jobs |-> NoFile]
  /\ fs = {}
  /\ exc = [j \in Jobs |-> NoExc]
  /\ dl_outcome = [j \in Jobs |-> "none"]
  /\ enc_calls = [j \in Jobs |-> 0]
  /\ scratch = [j \in Jobs |-> NoFile]
  /\ result = [j \in Jobs |-> "none"]
  /\ out_path = [j \in Jobs |-> NoFile]
  /\ title = [j \in Jobs |-> <<>>]
  /\ batch_pc = "idle"
  /\ results = <<>>
  /\ collected = {}
  /\ source_data = [j \in Jobs |-> <<>>]
  /\ queue_table = <<>>
  /\ thread_row = [j \in Jobs |-> 0]
  /\ sweep_pc = "sleep"
  /\ listing = {}
  /\ calls = <<>>
  /\ aged = {}
  /\ swept = NoSwept
  /\ partial = {}
  /\ pool_size = 0
  /\ action_btn = <<>>
  /\ probe = NoProbe

\* The web server: /convert and the job threads.
NextWeb ==
  \/ \E fmt \in RequestFormats :
       \E srcs \in ListsOver(WebSources, 1, NumJobs - Cardinality(Issued)) :
         Convert(fmt, srcs)
  \/ \E j \in Jobs : L132(j)
  \/ \E j \in Jobs : L133(j)
  \/ \E j \in Jobs : L137(j)
  \/ \E j \in Jobs : L138(j)
  \/ \E j \in Jobs : L139(j)
  \/ \E j \in Jobs : L140(j)
  \/ \E j \in Jobs : L143(j)
  \/ \E j \in Jobs : L146(j)
  \/ \E j \in Jobs : L147(j)
  \/ \E j \in Jobs : L150(j)
  \/ \E j \in Jobs : L151(j)
  \/ \E j \in Jobs : L152(j)
  \/ \E j \in Jobs : L153(j)
  \/ \E j \in Jobs : L157(j)
  \/ \E j \in Jobs : L160(j)
  \/ \E j \in Jobs : L161(j)
  \/ \E j \in Jobs : L162(j)

\* The desktop GUI: the window and its ConversionThreads.
NextGui ==
  \/ \E url \in {UrlYT} : add_youtube_to_queue(url)
  \/ \E r \in 1..NumJobs : RemoveClicked(r)
  \/ clear_queue
  \/ \E fmt \in GuiFormats :
       \E srcs \in ListsOver(LocalItems, 0, NumJobs - Cardinality(Started)) :
         start_conversion(fmt, srcs)
  \/ \E j \in Jobs : G159(j)
  \/ \E j \in Jobs : G86(j)
  \/ \E j \in Jobs : G113(j)
  \/ \E j \in Jobs : G165(j)
  \/ \E j \in Jobs : G169(j)
  \/ \E j \in Jobs : G173(j)

\* The command line tool: batch_convert and its pool.
NextCli ==
  \/ \E fmt \in RequestFormats : \E srcs \in ListsOver(CliItems, 1, NumJobs) :
       \E workers \in JobsFlags : batch_convert(fmt, srcs, workers)
  \/ \E j \in Jobs : C106(j)
  \/ \E j \in Jobs : C108(j)
  \/ \E j \in Jobs : C110(j)
  \/ \E j \in Jobs : C112(j)
  \/ \E j \in Jobs : C116(j)
  \/ \E j \in Jobs : C129(j)
  \/ C133
  \/ BatchRaise

Next == NextWeb \/ NextGui \/ NextCli

Spec == Init /\ [][Next]_vars

\* convert_audio of the web front end, called on its own.
InitWeb == Init /\ surface = "web"

NextConvertAudio ==
  \E j \in CallJobIds : \E input \in CallInputs : \E fmt \in CallFormats :
    convert_audio(j, input, fmt)

SpecConvertAudio == InitWeb /\ [][NextConvertAudio]_vars

\* The web service alone.
SpecWeb == InitWeb /\ [][NextWeb]_vars

\* The cleanup thread (283-302).
NextSweep ==
  \/ SweepWake
  \/ DayPasses
  \/ \E f \in listing : \E removed \in BOOLEAN : SweepFile(f, removed)
  \/ SweepNext

\* The web service with its cleanup thread.
SpecSweep == InitWeb /\ [][NextWeb \/ NextSweep]_vars

\* The web service with its cleanup thread and with uploads.
SpecUploadSweep == InitWeb /\ [][NextWeb \/ NextSweep \/ upload]_vars

\* One step of the thread of job j (process_conversion_job, 129-162).
JobStep(j) ==
  \/ L132(j) \/ L133(j) \/ L137(j) \/ L138(j) \/ L139(j) \/ L140(j) \/ L143(j)
  \/ L146(j) \/ L147(j) \/ L150(j) \/ L151(j) \/ L152(j) \/ L153(j) \/ L157(j)
  \/ L160(j) \/ L161(j) \/ L162(j)

\* The web service with every started thread scheduled again and again, and
\* every call of the downloader and the encoder coming back.
SpecWebFair == InitWeb /\ [][NextWeb]_vars /\ \A j \in Jobs : WF_vars(JobStep(j))

\* The command line tool alone.
InitCli == Init /\ surface = "cli"

\* One step of the pool worker that runs item j (process_file, 104-116).
CliStep(j) == C106(j) \/ C108(j) \/ C110(j) \/ C112(j) \/ C116(j)

\* The command line tool with its pool threads scheduled again and again, and
\* every call of the downloader and the encoder coming back.
SpecCliFair == InitCli /\ [][NextCli]_vars /\ \A j \in Jobs : WF_vars(CliStep(j))

\* The parameter builders of the three front ends, called on their own.
NextParams ==
  \E fmt \in DOMAIN AUDIO_FORMATS : \E sample_rate \in SampleRates :
    \E bitrate \in Bitrates : BuildParams(fmt, sample_rate, bitrate)

SpecParams == Init /\ [][NextParams]_vars

\* The file name cleaning of /download, called on its own.
NextDownloadName ==
  \E job_id \in Uuids : \E stem \in Stems : \E ext \in Exts :
    DownloadName(job_id, stem, ext)

SpecDownloadName == InitWeb /\ [][NextDownloadName]_vars

\* The progress hook of the GUI's downloader, called on its own.
NextHook == \E d \in Reports : HookCalled(d)

\* The desktop application alone.
InitGui == Init /\ surface = "gui"

SpecHook == InitGui /\ [][NextHook]_vars

\* ---------------------------------------------------------------- claims
Terminal(j) == pc[j] = "done"

WebJob(j) == surface = "web" /\ j \in Issued

\* C1: in web mode, in every state a /status read can observe, a job record
\* has an output_path if and only if its status is completed.
C1_OutputPathIffCompleted ==
  \A j \in Jobs : WebJob(j) =>
    ((get_status(j).output_path # NoFile) <=> (get_status(j).status = "completed"))

\* C2: a web job's status only moves queued -> processing -> (completed |
\* failed), and a completed or failed status never changes again, whatever
\* download, conversion and scratch-file cleanup do.  (The status part of
\* the claim; output_path and error are also written after the status, at
\* app.py 152 and 161.)
C2_StatusOnlyMovesForward ==
  [][\A j \in Jobs : (WebJob(j) /\ conversion_jobs'[j].status # conversion_jobs[j].status) =>
       <<conversion_jobs[j].status, conversion_jobs'[j].status>> \in
          {<<"queued", "processing">>, <<"processing", "completed">>,
           <<"processing", "failed">>}]_vars

\* C3: in web mode, when removing the scratch file raises, the failure is not
\* re-raised and the job keeps the status its conversion gave it: completed.
C3_RemoveFailureKeepsCompleted ==
  \A j \in Jobs : (WebJob(j) /\ exc[j] = ExcRemove) =>
    conversion_jobs[j].status = "completed"

\* The conversion of job j has returned, with a result or with an error.
ConvertReturned(j) == enc_calls[j] > 0 \/ exc[j] = ExcFormat

\* C4: on every surface, a remote job whose download succeeded and whose
\* conversion has returned (also with an error) leaves no scratch file of
\* its own behind once it is terminal.
C4_NoScratchLeftBehind ==
  \A j \in Jobs : (Terminal(j) /\ dl_outcome[j] = "ok" /\ ConvertReturned(j)) =>
    scratch[j] \notin fs

\* C5: on every surface, for a job whose format id is not in the catalog
\* neither the downloader nor the encoder is ever invoked.
C5_UnknownFormatSpawnsNothing ==
  \A j \in Jobs : (pc[j] # "idle" /\ output_format[j] \notin DOMAIN AUDIO_FORMATS) =>
    (dl_outcome[j] = "none" /\ enc_calls[j] = 0)

\* C6: in web mode, in every state (every snapshot /status returns), the
\* status is completed if and only if the progress is 100.
C6_CompletedIffProgress100 ==
  \A j \in Jobs : WebJob(j) =>
    ((get_status(j).status = "completed") <=> (get_status(j).progress = 100))

\* C7: in web mode, in every state, a job record carries an error if and only
\* if its status is failed (and /status returns the record, never 'Job not
\* found', for an issued job).
C7_ErrorIffFailed ==
  \A j \in Jobs : WebJob(j) =>
    /\ get_status(j) = conversion_jobs[j]
    /\ (get_status(j).error # Absent) <=> (get_status(j).status = "failed")

StageErrors == {ExcDownload, ExcUnpack, ExcFormat, ExcEncoder}

\* C8: in web mode, whichever stage raises (download, a download that yields
\* no file, format lookup, encoder), process_conversion_job ends normally with
\* status failed and error equal to the exception text; no exception leaves
\* the job's thread, and the other jobs' records are as their own runs left
\* them.
C8_StageErrorsEndFailed ==
  \A j \in Jobs : WebJob(j) =>
    /\ pc[j] # "escaped"
    /\ (Terminal(j) /\ exc[j] \in StageErrors) =>
         (conversion_jobs[j].status = "failed" /\ conversion_jobs[j].error = exc[j])
    /\ (Terminal(j) /\ exc[j] = NoExc) => conversion_jobs[j].status = "completed"

\* C8 witness: one job ended failed on a download that yielded no file while
\* another job of the same server ended completed.
C8_Witness ==
  /\ surface = "web"
  /\ \E j \in Issued : \E k \in Issued :
       /\ Terminal(j) /\ exc[j] = ExcUnpack
       /\ conversion_jobs[j].status = "failed" /\ conversion_jobs[j].error = ExcUnpack
       /\ Terminal(k) /\ conversion_jobs[k].status = "completed"

\* C9: in CLI batch mode no failure of an item (unsupported format, failed
\* download, encoder error, failure to remove the temp file) raises out of
\* batch_convert: it returns the list of the successful outputs.
C9_BatchNeverRaises ==
  surface = "cli" => batch_pc \notin {"exiting", "raised"}

\* C10: on every surface, the encoder runs for a remote job only after the
\* job's downloader delivered its file; when the downloader raises or yields
\* no file the encoder is never invoked for that job.
C10_EncoderOnlyAfterAcquisition ==
  \A j \in Jobs : (source_type[j] = "youtube" /\ enc_calls[j] > 0) => dl_outcome[j] = "ok"

\* C11: in GUI and CLI mode no conversion writes an output path that already
\* exists when it writes (a file that was there, or that another conversion
\* of the same stem has just written), and no two conversions are about to
\* write the same path.
C11_NoSharedOutputPath ==
  [][\A j \in Jobs :
       /\ (surface = "gui" /\ pc[j] = "G113" /\ pc'[j] = "G165") =>
            /\ out_path[j] \notin fs
            /\ \A k \in Jobs \ {j} : pc[k] = "G113" => out_path[k] # out_path[j]
       /\ (surface = "cli" /\ enc_calls'[j] # enc_calls[j] /\ out_path'[j] # NoFile) =>
            out_path'[j] \notin fs]_vars

\* C12: on every surface, the file a remote job hands to its encoder (and
\* later deletes) is the file its own download produced.
C12_ScratchIsPrivate ==
  \A j \in Jobs : (source_type[j] = "youtube" /\ input_path[j] # NoFile) =>
    input_path[j] = scratch[j]

\* The calls of convert_audio that returned a path.
Returned == {i \in 1..Len(calls) : calls[i].error = NoExc}

\* C13: the output path of the web convert_audio is a function of the job id,
\* the stem of the input and the extension of the format: two calls that
\* returned with the same input and format under different job ids have
\* different paths, both on disk; two calls under the same job id with the same
\* stem and extension have the same path, and the later one found the file of
\* the earlier one there and still returned.
C13_PathIsFunctionOfJobStemExt ==
  \A a \in Returned : \A b \in Returned :
    /\ (calls[a].input = calls[b].input /\ calls[a].fmt = calls[b].fmt
          /\ calls[a].job # calls[b].job) =>
         /\ calls[a].path # calls[b].path
         /\ {calls[a].path, calls[b].path} \subseteq fs
    /\ (calls[a].job = calls[b].job /\ calls[a].input.name = calls[b].input.name
          /\ AUDIO_FORMATS[calls[a].fmt].ext = AUDIO_FORMATS[calls[b].fmt].ext) =>
         /\ calls[a].path = calls[b].path
         /\ a < b => calls[b].existed
    /\ calls[a].path = calls[b].path =>
         /\ calls[a].job = calls[b].job
         /\ calls[a].input.name = calls[b].input.name
         /\ AUDIO_FORMATS[calls[a].fmt].ext = AUDIO_FORMATS[calls[b].fmt].ext

\* Both cases have happened: the same call twice under one job id, the second
\* over the file of the first, and the same call under another job id.
C13_Witness ==
  /\ Len(calls) >= 3
  /\ {1, 2, 3} \subseteq Returned
  /\ calls[1].job = calls[2].job
  /\ calls[1].input = calls[2].input /\ calls[1].input = calls[3].input
  /\ calls[1].fmt = calls[2].fmt /\ calls[1].fmt = calls[3].fmt
  /\ calls[2].existed
  /\ calls[3].job # calls[1].job
  /\ ~calls[3].existed
  /\ {calls[2].path, calls[3].path} \subseteq fs

\* C14: a job has at most one execution attempt: no two conversion threads of
\* the GUI, running or finished, were started for the same row of the queue,
\* whatever the presses of 'Convert All Files'.
C14_OneAttemptPerRow ==
  surface = "gui" =>
    \A j \in Started : \A k \in Started \ {j} : thread_row[j] # thread_row[k]

\* C15: under fair scheduling every job submitted through /convert reaches
\* `completed` or `failed`, whatever the other jobs do, and a step changes the
\* registry record of a job only if it is a step of that job's own thread.
C15_EveryJobEndsAlone ==
  /\ \A j \in Jobs :
       (j \in Issued) ~> (j \in Issued /\ conversion_jobs[j].status \in {"completed", "failed"})
  /\ [][\A k \in Issued :
          conversion_jobs'[k] # conversion_jobs[k] => pc'[k] # pc[k]]_vars

\* Two jobs of one request have both ended, one completed and one failed.
C15_Witness ==
  /\ surface = "web"
  /\ Issued = {1, 2}
  /\ pc[1] = "done" /\ pc[2] = "done"
  /\ conversion_jobs[1].status = "completed"
  /\ conversion_jobs[2].status = "failed"

\* C16: an id returned by /convert maps to one registry record from then on:
\* the record is there as soon as the thread of the job exists, /status returns
\* it and never 'Job not found', it is `queued` with progress 0 until the thread
\* takes its first step, and no step removes a record or changes its id.
C16_IssuedIdKeepsItsRecord ==
  /\ [](surface = "web" =>
         \A j \in Jobs :
           /\ pc[j] # "idle" =>
                /\ j \in Issued
                /\ get_status(j) = conversion_jobs[j]
                /\ conversion_jobs[j].id = IdStr(j)
           /\ pc[j] = "L132" =>
                (conversion_jobs[j].status = "queued" /\ conversion_jobs[j].progress = 0))
  /\ [][\A j \in Issued :
          j \in DOMAIN conversion_jobs' /\ conversion_jobs'[j].id = conversion_jobs[j].id]_vars

\* /convert has returned two ids; the thread of the first has run to its end
\* while the second has not taken a step and is still `queued`.
C16_Witness ==
  /\ surface = "web"
  /\ Issued = {1, 2}
  /\ pc[1] = "done"
  /\ pc[2] = "L132"
  /\ get_status(2).status = "queued"
  /\ get_status(1).status \in {"completed", "failed"}

\* C17: on every surface the downloader is invoked for a source only if the
\* url of the source matches the video-host pattern (youtube.com or youtu.be).
C17_DownloadOnlyForVideoHost ==
  \A j \in Jobs : dl_outcome[j] # "none" => is_youtube_url(source_data[j])

\* C18: /download for a job that ran to its end completed and whose output
\* file is gone from the disk since answers with an error of its own, one that
\* is neither 'Job not found' nor 'File not ready', and does not let an
\* exception out of the handler.
C18_GoneOutputHasItsOwnError ==
  \A j \in Issued :
    (/\ pc[j] = "done"
     /\ conversion_jobs[j].status = "completed"
     /\ conversion_jobs[j].output_path # NoFile
     /\ conversion_jobs[j].output_path \notin fs) =>
      /\ ~download(j).raised
      /\ download(j).error \notin {"none", "Job not found", "File not ready"}

\* C19: /download sends a file only for a job whose record says `completed`
\* and has an output_path, and then it is the file the job's encoder wrote; an
\* unknown id gets 'Job not found', and a job that is queued, processing or
\* failed, or has no output_path yet, gets 'File not ready'.
C19_NoBytesUnlessCompleted ==
  \A j \in Jobs :
    /\ j \notin Issued => (download(j).error = "Job not found" /\ download(j).code = 404)
    /\ (j \in Issued /\ (conversion_jobs[j].status \in {"queued", "processing", "failed"}
                          \/ conversion_jobs[j].output_path = NoFile)) =>
         (download(j).error = "File not ready" /\ download(j).code = 400)
    /\ download(j).sent # NoFile =>
         /\ conversion_jobs[j].status = "completed"
         /\ pc[j] \in {"L153", "L157", "L160", "done"}
         /\ enc_calls[j] > 0
         /\ download(j).sent = WebOutputPath(j, input_path[j], output_format[j])
         /\ download(j).sent \in fs

\* One job is served its file while another, failed after its output was
\* written and recorded, is refused.
C19_Witness ==
  /\ surface = "web"
  /\ Issued = {1, 2}
  /\ download(1).error = "File not ready"
  /\ conversion_jobs[1].status = "failed"
  /\ conversion_jobs[1].output_path \in fs
  /\ download(2).code = 200
  /\ download(2).sent = conversion_jobs[2].output_path

\* C20: nothing that goes wrong with one entry (a removal that fails, an entry
\* that is gone between the listing and the age test) ends the cleanup thread.
C20_SweeperNeverDies ==
  sweep_pc # "dead"

\* C22: in web mode the progress of a job is always within 0..100 and no step
\* lowers it, on the local-file path and on the remote path, whether the job
\* ends completed or failed.
C22_ProgressBoundedMonotone ==
  /\ [](\A j \in Issued : conversion_jobs[j].progress \in 0..100)
  /\ [][\A j \in Issued : conversion_jobs'[j].progress >= conversion_jobs[j].progress]_vars

\* A remote job has ended failed at its encoder with the progress it had
\* reached, and a local-file job has ended completed at 100.
C22_Witness ==
  /\ surface = "web"
  /\ \E j \in Issued : \E k \in Issued :
       /\ pc[j] = "done" /\ source_type[j] = "youtube" /\ exc[j] = ExcEncoder
       /\ conversion_jobs[j].status = "failed" /\ conversion_jobs[j].progress = 60
       /\ pc[k] = "done" /\ source_type[k] = "file"
       /\ conversion_jobs[k].status = "completed" /\ conversion_jobs[k].progress = 100

\* The cleanup loop handles the listed entry f, which is still on disk, in
\* this step.
SweepHandles(f) ==
  /\ f \in listing
  /\ f \in fs
  /\ listing' = listing \ {f}
  /\ sweep_pc' = sweep_pc

C23_ParamsAreStrictOverlay ==
  probe.fn = "audio_params" =>
    LET params == probe.params
    IN /\ DOMAIN params \subseteq {"acodec", "ar", "audio_bitrate"}
       /\ "acodec" \in DOMAIN params
       /\ params["acodec"] = AUDIO_FORMATS[probe.fmt].codec
       /\ "ar" \in DOMAIN params <=> probe.sample_rate \notin Falsy
       /\ "ar" \in DOMAIN params => params["ar"] = probe.sample_rate
       /\ "audio_bitrate" \in DOMAIN params <=> probe.bitrate \notin Falsy
       /\ "audio_bitrate" \in DOMAIN params => params["audio_bitrate"] = probe.bitrate

\* The GUI built the parameters of an m4a request with a bitrate and no sample
\* rate: the codec and the bitrate, nothing else.
C23_Witness ==
  /\ surface = "gui"
  /\ probe.fn = "audio_params"
  /\ probe.fmt = "m4a" /\ probe.sample_rate = None /\ probe.bitrate = "128k"
  /\ DOMAIN probe.params = {"acodec", "audio_bitrate"}
  /\ probe.params["acodec"] = "aac"

\* C24: for the lossless formats wav and flac the encoder parameters have no
\* bitrate key, whatever the request says, on every front end.
C24_NoBitrateForLossless ==
  (probe.fn = "audio_params" /\ probe.fmt \in {"wav", "flac"}) =>
    "audio_bitrate" \notin DOMAIN probe.params

\* C25: a call of convert_audio that raises the encoder's error at an output
\* path holding a complete earlier output leaves that output complete: the
\* path never holds a half-written file in place of the old one.
C25_FailedEncodeKeepsOldOutput ==
  \A i \in 1..Len(calls) :
    (calls[i].error = ExcEncoder /\ calls[i].whole_before) => calls[i].whole_after

\* C26: in a batch of the command line tool no more items are being downloaded
\* or converted at once than the pool has workers (-j, default max_workers),
\* every submitted item is taken by a worker and finishes, and no item is
\* taken twice: a finished item stays finished and an item a worker took never
\* goes back to the queue.
C26_PoolBoundsAndRunsEveryItemOnce ==
  /\ [](/\ Cardinality(Running) <= pool_size
        /\ pool_size <= max_workers
        /\ \A j \in Jobs : enc_calls[j] <= 1)
  /\ \A j \in Jobs : (pc[j] = "submitted") ~> (pc[j] = "done")
  /\ [][\A j \in Jobs :
          /\ pc[j] = "done" => pc'[j] = "done"
          /\ pc[j] \notin {"idle", "submitted"} => pc'[j] # "submitted"]_vars

\* Two items were submitted to a pool of one worker: the first has run and
\* finished, the worker is converting the second, which was held back till then.
C26_Witness ==
  /\ surface = "cli"
  /\ pool_size = 1
  /\ \E j, k \in Jobs :
       /\ pc[j] = "done" /\ enc_calls[j] = 1
       /\ pc[k] \in {"C110", "C116"} /\ enc_calls[k] = 0

\* C27: the name /download sends is the output file name without the job id
\* and its underscore: for every job id and every stem, with underscores in
\* it or empty, it is the stem, a dot and the extension.
C27_DownloadNameIsStemDotExt ==
  probe.fn = "clean_filename" =>
    probe.download_name = probe.stem \o <<".">> \o probe.ext

\* A stem that begins and ends with an underscore was cleaned.
C27_Witness ==
  /\ probe.fn = "clean_filename"
  /\ probe.stem = <<"_", "s", "_">>
  /\ probe.download_name = <<"_", "s", "_", ".", "o", "g", "g">>

\* C28: every progress value the GUI's download hook emits lies in the
\* acquisition range 20..70, whatever report the downloader makes, also one
\* without total_bytes.
C28_HookStaysInAcquisitionRange ==
  probe.fn = "youtube_progress_hook" =>
    \A i \in 1..Len(probe.emitted) : probe.emitted[i] \in 20..70

\* The file the encoder of job j will read: the upload of a file job, the
\* downloaded scratch file of a video job.
NeededFile(j) == IF source_type[j] = "file" THEN WebUpload(j) ELSE scratch[j]

\* Job j is queued or processing and its encoder has not read its input yet.
AwaitsEncoder(j) ==
  /\ j \in Issued
  /\ conversion_jobs[j].status \in {"queued", "processing"}
  /\ pc[j] \in {"L132", "L133", "L137", "L138", "L139", "L140", "L143", "L146", "L147"}

\* C29: no step takes away the input of a job in flight: while a job is
\* queued or processing and its encoder has not run yet, its uploaded file or
\* downloaded scratch file, once on disk, stays on disk.
C29_SweeperSparesInFlightInputs ==
  [][\A j \in Jobs :
       (AwaitsEncoder(j) /\ NeededFile(j) \in fs) => NeededFile(j) \in fs']_vars

\* C30: in the GUI the signals of a conversion that is still running go to
\* the row of its own source, and the "Remove" button of a row removes that
\* row: the row index a thread's slots were bound to, when the table has such
\* a row, is the row holding the thread's source, and the index a row's
\* "Remove" handler was bound to is the row's own.
C30_SignalsAndButtonsHitTheirRow ==
  surface = "gui" =>
    /\ \A j \in Jobs :
         (pc[j] \notin {"idle", "done"} /\ thread_row[j] \in 1..Len(queue_table))
           => queue_table[thread_row[j]] = source_data[j]
    /\ \A r \in 1..Len(queue_table) : action_btn[r] # OpenBtn => action_btn[r] = r
====
